---- MODULE Spec2Model ----
(***************************************************************************)
(* Model of src/extract.py: the Apple Health export extractor.             *)
(*                                                                         *)
(*   process_record      one Record element -> rows written + tally key    *)
(*   process_workout     one Workout element -> header + windowed re-scan  *)
(*   process_data_files  the document driver: header, dispatch, footer     *)
(*                                                                         *)
(* Two specifications share the variables:                                 *)
(*   Spec     runs process_data_files over a whole document;               *)
(*   RecSpec  makes one call of process_record on one Record element.      *)
(*                                                                         *)
(* Encodings.  An XML element is a record; `has` is the set of attribute   *)
(* names present in node.attrib, so  "type" \in node.has  is the code's    *)
(* 'type' in node.attrib.  A zoned timestamp string                        *)
(* "YYYY-MM-DD HH:MM:SS +-HHMM" is [t |-> local time, z |-> UTC offset],   *)
(* both in minutes.  A time-of-day string "H:MM:SS.f AM/PM" is             *)
(* [h |-> H, m |-> MM, p |-> "AM"/"PM"] (seconds are zero).  Every         *)
(* timestamp string is well formed (strptime never raises ValueError).     *)
(* A falsy option (None or '' for device/sourceName, None or 0 for         *)
(* workout) is "" or 0.                                                    *)
(***************************************************************************)
EXTENDS Integers, Sequences, FiniteSets, TLC

VARIABLES
    args,           \* the parsed options: device, sourceName, workout, summary
    doc,            \* root.iter(): the document's elements in document order
    pc,             \* "header", "dispatch", "done", "raised"; "call", "returned"
    pos,            \* position of the dispatch loop in doc
    workout_idx,    \* process_data_files: workout_idx
    record_types,   \* process_data_files: record_types, in insertion order
    out,            \* the lines written to args.outfile
    rt,             \* the value process_record last returned
    win             \* the (start, end) window handed to process_record

vars == <<args, doc, pc, pos, workout_idx, record_types, out, rt, win>>

(***************************************************************************)
(* Bounds of the model.                                                    *)
(***************************************************************************)
MaxT == 2          \* local times of timestamps range over 1..MaxT
MaxBeats == 2      \* children of an HRV record
MaxDoc == 3        \* elements of a document
MaxWorkout == 2    \* values of the --workout option

(***************************************************************************)
(* Strings of the program.                                                 *)
(***************************************************************************)
HeartRate == "HKQuantityTypeIdentifierHeartRate"
HeartRateVariability == "HKQuantityTypeIdentifierHeartRateVariabilitySDNN"
StepCount == "HKQuantityTypeIdentifierStepCount"
BeatTag == "InstantaneousBeatsPerMinute"
ListTag == "HeartRateVariabilityMetadataList"

(***************************************************************************)
(* Values.                                                                 *)
(***************************************************************************)
NoTs == [t |-> 0, z |-> 0]
NoTime == [h |-> 0, m |-> 0, p |-> ""]
NoWindow == [some |-> FALSE, start |-> 0, end |-> 0]
Window(S, E) == [some |-> TRUE, start |-> S, end |-> E]

\* process_record's return value: None, or the pair (sourceName, type).
NoneKey == [none |-> TRUE, sourceName |-> "", type |-> ""]
TallyKey(s, ty) == [none |-> FALSE, sourceName |-> s, type |-> ty]

Has(node, a) == a \in node.has

(***************************************************************************)
(* Timestamp conversions.                                                  *)
(***************************************************************************)
\* datetime.strptime(s, '%Y-%m-%d %H:%M:%S %z'): an aware datetime.  Aware
\* datetimes compare by their UTC instant and keep their own offset.
ParseAbsolute(s) == [utc |-> s.t - s.z, z |-> s.z]

\* datetime + timedelta keeps the offset.
PlusDelta(dt, d) == [utc |-> dt.utc + d, z |-> dt.z]

\* datetime.strptime(s, '%H:%M:%S.%f %p').time(), in minutes after midnight.
\* %H reads the hour field as a 24-hour hour; %p consumes AM/PM and changes
\* the hour only together with %I, which the format does not use.
ParseTimeOfDay(s) == s.h * 60 + s.m

\* Faulty variant: the reference time is not subtracted.
ElapsedFromMidnight(st, ed) == ed
\* datetime.combine(date.min, ed) - datetime.combine(date.min, st)
Elapsed(st, ed) == ed - st

(***************************************************************************)
(* process_record                                                          *)
(***************************************************************************)
SourceNameOf(node) == IF Has(node, "sourceName") THEN node.sourceName ELSE ""
DeviceOf(node) == IF Has(node, "device") THEN node.device ELSE ""

\* Faulty variant: a record with an empty attribute passes the filter.
FilteredOutLenient(a, node) ==
    \/ a.device # "" /\ DeviceOf(node) # "" /\ a.device # DeviceOf(node)
    \/ a.sourceName # "" /\ SourceNameOf(node) # "" /\ a.sourceName # SourceNameOf(node)
\* lines 73-76: the device and sourceName filters
FilteredOut(a, node) ==
    \/ a.device # "" /\ a.device # DeviceOf(node)
    \/ a.sourceName # "" /\ a.sourceName # SourceNameOf(node)

\* Faulty variants: a true interval-intersection test; the first branch lost.
WindowSkipDisjoint(start, end, start_, end_) == end < start_ \/ end_ < start
WindowSkipAfterOnly(start, end, start_, end_) == start > start_ /\ end > end_
\* lines 84-87: the window test on instants; start, end are the window and
\* start_, end_ the record's own instants
WindowSkip(start, end, start_, end_) ==
    \/ start < start_ /\ end < end_
    \/ start > start_ /\ end > end_

\* lines 89-93: the heart-rate row; src is the position of the Record in the
\* document (a history field: the line itself does not carry it)
HeartRateRows(a, node, src) ==
    IF Has(node, "value") /\ ~a.summary
    THEN << [kind |-> "hr", st |-> node.startDate, ed |-> node.endDate,
             third |-> "", bpm |-> node.value, src |-> src] >>
    ELSE << >>

\* lines 102-124: the loop over node.iter() of an HRV record.  hasFirst is
\* `obs_first` being set, st_dt the parsed first time.  A missing `time`
\* raises KeyError; the rows printed before it stay written.
RECURSIVE BeatRows(_, _, _, _, _, _)
BeatRows(a, node, src, i, hasFirst, st_dt) ==
    IF i > Len(node.children) THEN [raised |-> FALSE, rows |-> << >>]
    ELSE LET gc == node.children[i] IN
         IF gc.tag # BeatTag THEN BeatRows(a, node, src, i + 1, hasFirst, st_dt)
         ELSE IF ~hasFirst /\ ~Has(gc, "time") THEN [raised |-> TRUE, rows |-> << >>]
         ELSE LET ref == IF hasFirst THEN st_dt ELSE ParseTimeOfDay(gc.time) IN
              IF ~Has(gc, "bpm") THEN BeatRows(a, node, src, i + 1, TRUE, ref)
              ELSE IF ~Has(gc, "time") THEN [raised |-> TRUE, rows |-> << >>]
              ELSE LET time_offset == Elapsed(ref, ParseTimeOfDay(gc.time))
                       row == [kind |-> "hrv",
                               instant |-> PlusDelta(ParseAbsolute(node.startDate), time_offset),
                               bpm |-> gc.bpm, sourceName |-> SourceNameOf(node),
                               device |-> DeviceOf(node), src |-> src]
                       rest == BeatRows(a, node, src, i + 1, TRUE, ref)
                   IN [raised |-> rest.raised,
                       rows |-> (IF a.summary THEN << >> ELSE << row >>) \o rest.rows]

\* Faulty variant: a row for every beat sample, with or without bpm.
HrvRowsEveryBeat(a, node, src) ==
    LET beats == SelectSeq(node.children, LAMBDA c : c.tag = BeatTag) IN
    [raised |-> FALSE,
     rows |-> IF a.summary THEN << >>
              ELSE [i \in 1..Len(beats) |->
                    [kind |-> "hrv", instant |-> ParseAbsolute(node.startDate),
                     bpm |-> beats[i].bpm, sourceName |-> SourceNameOf(node),
                     device |-> DeviceOf(node), src |-> src]]]
\* lines 96-124
HrvRows(a, node, src) == BeatRows(a, node, src, 1, FALSE, 0)

\* Faulty variant: a type that is not HRV is treated as heart rate.
RowsForAnyType(a, node, src) ==
    IF node.type = HeartRateVariability THEN HrvRows(a, node, src)
    ELSE [raised |-> FALSE, rows |-> HeartRateRows(a, node, src)]
\* lines 89-124: dispatch on the type
RowsFor(a, node, src) ==
    IF node.type = HeartRate
    THEN [raised |-> FALSE, rows |-> HeartRateRows(a, node, src)]
    ELSE IF node.type = HeartRateVariability THEN HrvRows(a, node, src)
    ELSE [raised |-> FALSE, rows |-> << >>]

\* lines 22-126.  The result: did the call raise, the value returned, and the
\* rows written to the sink.
ProcessRecord(a, node, w, src) ==
    IF ~Has(node, "type") THEN [raised |-> FALSE, ret |-> NoneKey, rows |-> << >>]
    ELSE IF FilteredOut(a, node)
    THEN [raised |-> FALSE, ret |-> NoneKey, rows |-> << >>]
    ELSE IF ~Has(node, "startDate") \/ ~Has(node, "endDate")
    THEN [raised |-> TRUE, ret |-> NoneKey, rows |-> << >>]
    ELSE IF /\ w.some
            /\ WindowSkip(w.start, w.end, ParseAbsolute(node.startDate).utc,
                          ParseAbsolute(node.endDate).utc)
    THEN [raised |-> FALSE, ret |-> NoneKey, rows |-> << >>]
    ELSE LET r == RowsFor(a, node, src) IN
         IF r.raised THEN [raised |-> TRUE, ret |-> NoneKey, rows |-> r.rows]
         ELSE [raised |-> FALSE, ret |-> TallyKey(SourceNameOf(node), node.type),
               rows |-> r.rows]

(***************************************************************************)
(* process_workout                                                         *)
(***************************************************************************)
\* lines 136-140: the re-scan of root.iter(); process_record's return value
\* is dropped, a raise ends the scan and the run
RECURSIVE ScanRecords(_, _, _, _)
ScanRecords(a, root, w, i) ==
    IF i > Len(root) THEN [raised |-> FALSE, rows |-> << >>]
    ELSE IF root[i].tag # "Record" THEN ScanRecords(a, root, w, i + 1)
    ELSE LET r == ProcessRecord(a, root[i], w, i) IN
         IF r.raised THEN [raised |-> TRUE, rows |-> r.rows]
         ELSE LET rest == ScanRecords(a, root, w, i + 1) IN
              [raised |-> rest.raised, rows |-> r.rows \o rest.rows]

\* line 134: the header line of a workout
WorkoutHeader(node, index) ==
    [kind |-> "workout", index |-> index, ty |-> node.workoutActivityType,
     st |-> node.startDate, ed |-> node.endDate]

\* lines 132-133: start_, end_
WorkoutWindow(node) ==
    Window(ParseAbsolute(node.startDate).utc, ParseAbsolute(node.endDate).utc)

\* lines 128-140
ProcessWorkout(a, node, root, index) ==
    IF \/ ~Has(node, "startDate") \/ ~Has(node, "endDate")
       \/ ~Has(node, "workoutActivityType")
    THEN [raised |-> TRUE, rows |-> << >>]
    ELSE IF a.summary
    THEN [raised |-> FALSE, rows |-> << WorkoutHeader(node, index) >>]
    ELSE LET s == ScanRecords(a, root, WorkoutWindow(node), 1) IN
         [raised |-> s.raised, rows |-> << WorkoutHeader(node, index) >> \o s.rows]

(***************************************************************************)
(* process_data_files                                                      *)
(***************************************************************************)
\* lines 158-161: record_types[rt] = record_types.get(rt, 0) + 1, the dict
\* kept as the sequence of its items in insertion order
KeyIndex(types, k) == { i \in 1..Len(types) : types[i].key = k }
Tally(types, k) ==
    IF KeyIndex(types, k) # {}
    THEN [i \in 1..Len(types) |->
            IF types[i].key = k THEN [types[i] EXCEPT !.count = @ + 1] ELSE types[i]]
    ELSE Append(types, [key |-> k, count |-> 1])

\* Faulty variant: every workout from the configured index on is selected.
WorkoutSelectedFrom(a, idx) == (a.workout # 0 /\ a.workout <= idx) \/ a.summary
\* line 164: args.workout and args.workout == workout_idx or args.summary
WorkoutSelected(a, idx) == (a.workout # 0 /\ a.workout = idx) \/ a.summary

\* lines 167-169: the footer; k[0] of the key None raises TypeError, the
\* lines printed before it stay written
RECURSIVE FooterLines(_, _)
FooterLines(types, i) ==
    IF i > Len(types) THEN [raised |-> FALSE, rows |-> << >>]
    ELSE IF types[i].key.none THEN [raised |-> TRUE, rows |-> << >>]
    ELSE LET rest == FooterLines(types, i + 1) IN
         [raised |-> rest.raised,
          rows |-> << [kind |-> "tally", count |-> types[i].count,
                       sourceName |-> types[i].key.sourceName,
                       type |-> types[i].key.type] >> \o rest.rows]

(***************************************************************************)
(* The elements documents are made of.                                     *)
(***************************************************************************)
Element(tag, has, ty, sn, dev, st, ed, val, act, children) ==
    [tag |-> tag, has |-> has, type |-> ty, sourceName |-> sn, device |-> dev,
     startDate |-> st, endDate |-> ed, value |-> val,
     workoutActivityType |-> act, children |-> children]

Ts(t, z) == [t |-> t, z |-> z]
Tm(h, m, p) == [h |-> h, m |-> m, p |-> p]
Beat(has, bpm, time) == [tag |-> BeatTag, has |-> has, bpm |-> bpm, time |-> time]
MetadataList == [tag |-> ListTag, has |-> {}, bpm |-> "", time |-> NoTime]

\* The elements of the documents of Spec: Records and Workouts carry their
\* dates, as in an export; one Record has no type, one has no device.
\* root.iter() also yields the descendants of a Record; their tags are neither
\* Record nor Workout, so the dispatch loop passes over them like ExportDate.
DocNodes ==
    { Element("Record", {"type", "sourceName", "device", "startDate", "endDate", "value"},
              HeartRate, "A", "Watch", Ts(1, 0), Ts(1, 0), "76", "", << >>),
      Element("Record", {"type", "sourceName", "startDate", "endDate", "value"},
              HeartRate, "A", "", Ts(3, 0), Ts(4, 0), "80", "", << >>),
      Element("Record", {"type", "sourceName", "device", "startDate", "endDate", "value"},
              HeartRateVariability, "B", "Watch", Ts(2, 0), Ts(2, 0), "32.1",  "",
              << MetadataList, Beat({"bpm", "time"}, "95", Tm(6, 14, "PM")),
                 Beat({"bpm", "time"}, "94", Tm(6, 15, "PM")) >>),
      Element("Record", {"type", "sourceName", "device", "startDate", "endDate", "value"},
              StepCount, "A", "Watch", Ts(1, 0), Ts(3, 0), "12", "", << >>),
      Element("Record", {"sourceName", "device", "startDate", "endDate"},
              "", "A", "Watch", Ts(1, 0), Ts(1, 0), "", "", << >>),
      Element("Workout", {"workoutActivityType", "startDate", "endDate"},
              "", "", "", Ts(1, 0), Ts(2, 0), "", "Running", << >>),
      Element("Workout", {"workoutActivityType", "startDate", "endDate"},
              "", "", "", Ts(3, 0), Ts(4, 0), "", "Walking", << >>),
      Element("ExportDate", {"value"}, "", "", "", NoTs, NoTs, "2019", "", << >>) }

RECURSIVE SeqsUpTo(_, _)
SeqsUpTo(S, n) ==
    IF n = 0 THEN { << >> }
    ELSE LET shorter == SeqsUpTo(S, n - 1) IN
         shorter \cup { Append(q, x) : q \in { r \in shorter : Len(r) = n - 1 }, x \in S }

Documents == SeqsUpTo(DocNodes, MaxDoc)

DriverArgs ==
    [device : {"", "Watch"}, sourceName : {""}, workout : 0..MaxWorkout,
     summary : BOOLEAN]

(***************************************************************************)
(* Spec: one run of process_data_files.                                    *)
(***************************************************************************)
Init ==
    /\ args \in DriverArgs
    /\ doc \in Documents
    /\ pc = "header"
    /\ pos = 1
    /\ workout_idx = 0
    /\ record_types = << >>
    /\ out = << >>
    /\ rt = NoneKey
    /\ win = NoWindow

\* lines 144-150
EmitHeader ==
    /\ pc = "header"
    /\ out' = out \o << [kind |-> "blank"], [kind |-> "columns"] >>
    /\ pc' = "dispatch"
    /\ UNCHANGED <<args, doc, pos, workout_idx, record_types, rt, win>>

\* lines 154-161
DispatchRecord ==
    /\ pc = "dispatch" /\ pos <= Len(doc) /\ doc[pos].tag = "Record"
    /\ IF args.workout # 0
       THEN /\ pos' = pos + 1
            /\ UNCHANGED <<pc, record_types, out, rt>>
       ELSE LET r == ProcessRecord(args, doc[pos], NoWindow, pos) IN
            /\ out' = out \o r.rows
            /\ IF r.raised
               THEN pc' = "raised" /\ UNCHANGED <<pos, record_types, rt>>
               ELSE /\ rt' = r.ret
                    /\ record_types' = Tally(record_types, r.ret)
                    /\ pos' = pos + 1
                    /\ pc' = pc
    /\ UNCHANGED <<args, doc, workout_idx, win>>

\* lines 162-165
DispatchWorkout ==
    /\ pc = "dispatch" /\ pos <= Len(doc) /\ doc[pos].tag = "Workout"
    /\ workout_idx' = workout_idx + 1
    /\ IF WorkoutSelected(args, workout_idx + 1)
       THEN LET r == ProcessWorkout(args, doc[pos], doc, workout_idx + 1) IN
            /\ out' = out \o r.rows
            /\ win' = IF Len(r.rows) > 0 THEN WorkoutWindow(doc[pos]) ELSE win
            /\ IF r.raised THEN pc' = "raised" /\ pos' = pos
                           ELSE pc' = pc /\ pos' = pos + 1
       ELSE pos' = pos + 1 /\ UNCHANGED <<pc, out, win>>
    /\ UNCHANGED <<args, doc, record_types, rt>>

\* lines 152-162: an element that is neither a Record nor a Workout
DispatchOther ==
    /\ pc = "dispatch" /\ pos <= Len(doc)
    /\ doc[pos].tag \notin {"Record", "Workout"}
    /\ pos' = pos + 1
    /\ UNCHANGED <<args, doc, pc, workout_idx, record_types, out, rt, win>>

\* lines 167-170
EmitFooter ==
    /\ pc = "dispatch" /\ pos > Len(doc)
    /\ IF args.summary
       THEN LET f == FooterLines(record_types, 1) IN
            /\ out' = out \o f.rows
            /\ pc' = IF f.raised THEN "raised" ELSE "done"
       ELSE pc' = "done" /\ out' = out
    /\ UNCHANGED <<args, doc, pos, workout_idx, record_types, rt, win>>

Next ==
    \/ EmitHeader
    \/ DispatchRecord
    \/ DispatchWorkout
    \/ DispatchOther
    \/ EmitFooter

Spec == Init /\ [][Next]_vars

(***************************************************************************)
(* RecSpec: one call process_record(args, node, start, end).  The inputs   *)
(* are drawn from three families: the filters against every shape of       *)
(* Record, the window test against every pair of dates, and the beat loop  *)
(* against every series of children.                                       *)
(***************************************************************************)
TimeZones == {0, 1}
Timestamps == { Ts(t, z) : t \in 1..MaxT, z \in TimeZones }
Instants == 0..MaxT
Windows == { Window(S, E) : S \in Instants, E \in Instants }

TimeStrings == [h : {11, 12, 1}, m : {0, 30}, p : {"AM", "PM"}]

Children ==
    { MetadataList } \cup
    { Beat(has, bpm, time) :
        has \in SUBSET {"bpm", "time"}, bpm \in {"", "95", "94"},
        time \in TimeStrings \cup { NoTime } }
ChildrenWellFormed ==
    { c \in Children :
        \/ c.tag = ListTag
        \/ /\ ("bpm" \in c.has) = (c.bpm # "")
           /\ ("time" \in c.has) = (c.time # NoTime) }

OneBeat == << MetadataList, Beat({"bpm", "time"}, "95", Tm(12, 0, "PM")) >>

\* a Record with the attributes of `has`; the others keep their defaults
RecordOf(has, ty, sn, dev, st, ed, val, children) ==
    Element("Record", has,
            IF "type" \in has THEN ty ELSE "",
            IF "sourceName" \in has THEN sn ELSE "",
            IF "device" \in has THEN dev ELSE "",
            IF "startDate" \in has THEN st ELSE NoTs,
            IF "endDate" \in has THEN ed ELSE NoTs,
            IF "value" \in has THEN val ELSE "",
            "",
            IF "type" \in has /\ ty = HeartRateVariability THEN children ELSE << >>)

RecordTypes == {HeartRate, HeartRateVariability, StepCount}

FilterRecords ==
    { RecordOf(has, ty, sn, dev, Ts(1, 0), Ts(MaxT, 0), "76", OneBeat) :
        has \in SUBSET {"type", "sourceName", "device", "startDate", "endDate", "value"},
        ty \in RecordTypes, sn \in {"A", "B"}, dev \in {"Watch", "Phone"} }

WindowRecords ==
    { RecordOf(has \cup {"sourceName", "startDate", "endDate", "value"},
               ty, "A", "Watch", st, ed, "76", OneBeat) :
        has \in SUBSET {"type", "device"}, ty \in RecordTypes,
        st \in Timestamps, ed \in Timestamps }

BeatRecords ==
    { RecordOf({"type", "sourceName", "device", "startDate", "endDate", "value"},
               HeartRateVariability, "A", "Watch", st, Ts(MaxT, 0), "32.1", ch) :
        st \in {Ts(1, 0), Ts(MaxT, 1)}, ch \in SeqsUpTo(ChildrenWellFormed, MaxBeats) }

RecArgs ==
    [device : {"", "Watch"}, sourceName : {"", "A"}, workout : {0}, summary : BOOLEAN]
UnfilteredArgs ==
    [device : {""}, sourceName : {""}, workout : {0}, summary : BOOLEAN]

RecInit ==
    /\ \/ /\ args \in RecArgs
          /\ \E node \in FilterRecords : doc = << node >>
          /\ win \in {NoWindow, Window(1, MaxT)}
       \/ /\ args \in RecArgs
          /\ \E node \in WindowRecords : doc = << node >>
          /\ win \in Windows
       \/ /\ args \in UnfilteredArgs
          /\ \E node \in BeatRecords : doc = << node >>
          /\ win = NoWindow
    /\ pc = "call"
    /\ pos = 1
    /\ workout_idx = 0
    /\ record_types = << >>
    /\ out = << >>
    /\ rt = NoneKey

\* lines 22-126: the call returns its value, or raises
CallProcessRecord ==
    /\ pc = "call"
    /\ LET r == ProcessRecord(args, doc[pos], win, pos) IN
       /\ out' = out \o r.rows
       /\ rt' = r.ret
       /\ pc' = IF r.raised THEN "raised" ELSE "returned"
    /\ UNCHANGED <<args, doc, pos, workout_idx, record_types, win>>

RecNext == CallProcessRecord

RecSpec == RecInit /\ [][RecNext]_vars

(***************************************************************************)
(* Claims about process_record, checked under RecSpec.                     *)
(***************************************************************************)
Rec == doc[1]
RecBeats == SelectSeq(Rec.children, LAMBDA c : c.tag = BeatTag)
RecBpmBeats == SelectSeq(RecBeats, LAMBDA c : "bpm" \in c.has)
RecPassesFilters ==
    /\ args.device = "" \/ args.device = (IF "device" \in Rec.has THEN Rec.device ELSE "")
    /\ args.sourceName = ""
         \/ args.sourceName = (IF "sourceName" \in Rec.has THEN Rec.sourceName ELSE "")
RecHasDates == "startDate" \in Rec.has /\ "endDate" \in Rec.has
RecStart == Rec.startDate.t - Rec.startDate.z
RecEnd == Rec.endDate.t - Rec.endDate.z

\* C2 (as stated): for a classified HRV record in a non-summary run with at
\* least one beat sample carrying bpm, the first row's instant is the record's
\* startDate exactly, whichever children carry bpm.
C2_FirstRowAtStartDate_AnyBeats ==
    (/\ pc = "returned" /\ ~rt.none /\ ~args.summary
     /\ Rec.type = HeartRateVariability
     /\ Len(RecBpmBeats) > 0)
    => /\ Len(out) > 0
       /\ out[1].instant.utc = RecStart
       /\ out[1].instant.z = Rec.startDate.z

\* C2 (amended): ... provided the first InstantaneousBeatsPerMinute child
\* itself carries bpm, the first row's instant is the record's startDate.
C2_FirstRowAtStartDate ==
    (/\ pc = "returned" /\ ~rt.none /\ ~args.summary
     /\ Rec.type = HeartRateVariability
     /\ Len(RecBeats) > 0 /\ "bpm" \in RecBeats[1].has)
    => /\ Len(out) > 0
       /\ out[1].instant.utc = RecStart
       /\ out[1].instant.z = Rec.startDate.z

C2_Witness ==
    /\ pc = "returned" /\ ~rt.none /\ ~args.summary
    /\ Rec.type = HeartRateVariability
    /\ Len(RecBeats) = 2 /\ "bpm" \in RecBeats[1].has /\ "bpm" \in RecBeats[2].has
    /\ RecBeats[1].time # RecBeats[2].time
    /\ Len(out) = 2
    /\ out[1].instant = [utc |-> RecStart, z |-> Rec.startDate.z]
    /\ out[2].instant # out[1].instant

\* C3: in a non-summary run the rows written for a classified record follow
\* from its type: a heart-rate record with a value gives the one row
\* startDate,endDate,,value; an HRV record gives one row per beat sample
\* carrying bpm, in document order; any other type gives no row.
C3_RowsByType ==
    (pc = "returned" /\ ~rt.none /\ ~args.summary)
    => /\ (Rec.type = HeartRate /\ "value" \in Rec.has)
            => out = << [kind |-> "hr", st |-> Rec.startDate, ed |-> Rec.endDate,
                         third |-> "", bpm |-> Rec.value, src |-> 1] >>
       /\ Rec.type = HeartRateVariability
            => /\ Len(out) = Len(RecBpmBeats)
               /\ \A i \in 1..Len(out) :
                    /\ out[i].kind = "hrv"
                    /\ out[i].bpm = RecBpmBeats[i].bpm
       /\ Rec.type \notin {HeartRate, HeartRateVariability} => out = << >>

C3_Witness ==
    /\ pc = "returned" /\ ~rt.none /\ ~args.summary
    /\ Rec.type = HeartRateVariability
    /\ Len(Rec.children) = 2 /\ Len(RecBpmBeats) = 1 /\ Len(RecBeats) = 2
    /\ "bpm" \notin RecBeats[1].has
    /\ Len(out) = 1 /\ out[1].bpm = RecBeats[2].bpm

\* C6: the device and sourceName filters are exact string equality: with a
\* filter configured, rows are written and a tally key returned only for a
\* record whose attribute ("" when absent) equals the filter; with no filter
\* configured no record is excluded on these grounds.
C6_FiltersAreExactEquality ==
    pc \in {"returned", "raised"}
    => /\ (args.device # "" /\ (~rt.none \/ out # << >>))
            => args.device = (IF "device" \in Rec.has THEN Rec.device ELSE "")
       /\ (args.sourceName # "" /\ (~rt.none \/ out # << >>))
            => args.sourceName = (IF "sourceName" \in Rec.has THEN Rec.sourceName ELSE "")
       /\ (/\ pc = "returned" /\ args.device = "" /\ args.sourceName = ""
           /\ "type" \in Rec.has /\ ~win.some)
            => ~rt.none

C6_Witness ==
    /\ pc = "returned" /\ args.device = "Watch" /\ args.sourceName = ""
    /\ "type" \in Rec.has /\ "device" \notin Rec.has /\ RecHasDates
    /\ ~win.some
    /\ rt.none /\ out = << >>

\* C7 (as stated): when the beat samples' 12-hour AM/PM times lie in one day
\* in non-decreasing wall-clock order, every offset is non-negative, so every
\* reconstructed instant is at or after the record's startDate.
C7_OffsetsNonNegative ==
    LET WallClock(s) == ((s.h % 12) + (IF s.p = "PM" THEN 12 ELSE 0)) * 60 + s.m IN
    (/\ pc = "returned" /\ ~rt.none /\ ~args.summary
     /\ Rec.type = HeartRateVariability
     /\ \A i \in 1..Len(RecBeats) : "time" \in RecBeats[i].has
     /\ \A i, j \in 1..Len(RecBeats) :
            i < j => WallClock(RecBeats[i].time) <= WallClock(RecBeats[j].time))
    => \A i \in 1..Len(out) : out[i].instant.utc >= RecStart

\* C8 (as stated): a record of another type that passes the filters, with no
\* window, is classified whatever other attributes it carries: no row, no
\* raise, and (sourceName, type) returned.
C8_OtherTypeClassified_AnyAttributes ==
    (/\ pc \in {"returned", "raised"} /\ ~win.some
     /\ "type" \in Rec.has /\ Rec.type \notin {HeartRate, HeartRateVariability}
     /\ RecPassesFilters)
    => /\ pc = "returned"
       /\ out = << >>
       /\ rt = [none |-> FALSE,
                sourceName |-> (IF "sourceName" \in Rec.has THEN Rec.sourceName ELSE ""),
                type |-> Rec.type]

\* C8 (amended): ... provided the record carries both startDate and endDate,
\* whatever its value attribute; without one of them the call raises.
C8_OtherTypeClassified ==
    (/\ pc \in {"returned", "raised"} /\ ~win.some
     /\ "type" \in Rec.has /\ Rec.type \notin {HeartRate, HeartRateVariability}
     /\ RecPassesFilters)
    => IF RecHasDates
       THEN /\ pc = "returned"
            /\ out = << >>
            /\ rt = [none |-> FALSE,
                     sourceName |-> (IF "sourceName" \in Rec.has THEN Rec.sourceName ELSE ""),
                     type |-> Rec.type]
       ELSE pc = "raised" /\ out = << >>

C8_Witness ==
    /\ pc = "returned" /\ ~win.some /\ ~args.summary
    /\ "type" \in Rec.has /\ Rec.type = StepCount /\ "value" \in Rec.has
    /\ args.device = "Watch" /\ RecPassesFilters /\ RecHasDates
    /\ out = << >> /\ ~rt.none /\ rt.type = StepCount

C10_DisjointIsSkipped ==
    (/\ pc \in {"returned", "raised"} /\ win.some /\ RecHasDates
     /\ RecStart <= RecEnd /\ win.start <= win.end
     /\ (RecEnd < win.start \/ win.end < RecStart))
    => pc = "returned" /\ rt.none /\ out = << >>

C10_Witness ==
    /\ pc = "returned" /\ win.some /\ RecHasDates
    /\ "type" \in Rec.has /\ RecPassesFilters /\ ~args.summary
    /\ Rec.type = HeartRate /\ "value" \in Rec.has
    /\ RecStart <= RecEnd /\ win.start <= win.end
    /\ win.end < RecStart
    /\ rt.none /\ out = << >>

(***************************************************************************)
(* Claims about process_data_files, checked under Spec.                    *)
(***************************************************************************)
\* the Records of doc[1..n] that process_record classifies with no window
ClassifiedUpTo(n) ==
    { i \in 1..n :
        /\ doc[i].tag = "Record" /\ "type" \in doc[i].has
        /\ args.device = ""
             \/ args.device = (IF "device" \in doc[i].has THEN doc[i].device ELSE "")
        /\ args.sourceName = ""
             \/ args.sourceName = (IF "sourceName" \in doc[i].has THEN doc[i].sourceName ELSE "") }
PairOf(i) ==
    [none |-> FALSE,
     sourceName |-> (IF "sourceName" \in doc[i].has THEN doc[i].sourceName ELSE ""),
     type |-> doc[i].type]
DataRows == { j \in 1..Len(out) : out[j].kind \in {"hr", "hrv"} }
HeaderLines == { j \in 1..Len(out) : out[j].kind = "workout" }
WorkoutsUpTo(n) == { i \in 1..n : doc[i].tag = "Workout" }

\* C1 (as stated): the tally map holds an entry only for the (sourceName,
\* type) pairs of classified records; a record process_record skips adds no
\* key and increments no count.
C1_SkipAddsNoTallyEntry ==
    LET Total[n \in 0..Len(record_types)] ==
            IF n = 0 THEN 0 ELSE Total[n - 1] + record_types[n].count
    IN args.workout = 0
       => /\ \A e \in 1..Len(record_types) :
                \E i \in ClassifiedUpTo(pos - 1) : record_types[e].key = PairOf(i)
          /\ Total[Len(record_types)] = Cardinality(ClassifiedUpTo(pos - 1))

\* C4 (as stated): a summary run with no workout filter writes no data row,
\* completes without raising, and its footer is one tally line per distinct
\* (sourceName, type) pair of the classified records, in first-seen order,
\* with the number of classified records of that pair.
C4_SummaryFooter ==
    (args.summary /\ args.workout = 0)
    => /\ DataRows = {}
       /\ pc # "raised"
       /\ pc = "done"
            => LET classified == ClassifiedUpTo(Len(doc))
                   firsts == { i \in classified :
                                 \A j \in classified : PairOf(j) = PairOf(i) => j >= i }
                   footer == SelectSeq(out, LAMBDA l : l.kind = "tally")
               IN /\ Len(footer) = Cardinality(firsts)
                  /\ \A n \in 1..Len(footer) :
                       \E i \in firsts :
                          /\ Cardinality({ j \in firsts : j < i }) = n - 1
                          /\ footer[n] =
                               [kind |-> "tally",
                                count |-> Cardinality({ j \in classified :
                                                          PairOf(j) = PairOf(i) }),
                                sourceName |-> PairOf(i).sourceName,
                                type |-> PairOf(i).type]

\* C5: in a non-summary run with workout filter k >= 1 the workout index
\* counts every Workout in document order from 1; one header line is written
\* once the k-th Workout is reached (none if there are fewer than k), with
\* index k and the k-th Workout's fields; every data row follows that header
\* and comes from a Record passing the window test against that Workout.
C5_WorkoutScoping ==
    (args.workout >= 1 /\ ~args.summary)
    => LET k == args.workout
           kth == { i \in WorkoutsUpTo(Len(doc)) : Cardinality(WorkoutsUpTo(i)) = k }
       IN /\ pc # "raised" => workout_idx = Cardinality(WorkoutsUpTo(pos - 1))
          /\ Cardinality(HeaderLines) = IF workout_idx >= k THEN 1 ELSE 0
          /\ pc = "done"
               => (HeaderLines # {} <=> Cardinality(WorkoutsUpTo(Len(doc))) >= k)
          /\ \A h \in HeaderLines :
                \E i \in kth :
                   out[h] = [kind |-> "workout", index |-> k,
                             ty |-> doc[i].workoutActivityType,
                             st |-> doc[i].startDate, ed |-> doc[i].endDate]
          /\ \A j \in DataRows :
                /\ \E h \in HeaderLines : h < j
                /\ \E i \in kth :
                     LET r == doc[out[j].src]
                         S == doc[i].startDate.t - doc[i].startDate.z
                         E == doc[i].endDate.t - doc[i].endDate.z
                         s == r.startDate.t - r.startDate.z
                         e == r.endDate.t - r.endDate.z
                     IN /\ r.tag = "Record"
                        /\ ~(S < s /\ E < e)
                        /\ ~(S > s /\ E > e)

C5_Witness ==
    /\ pc = "done" /\ ~args.summary /\ args.workout = 2
    /\ workout_idx = 2
    /\ Cardinality(HeaderLines) = 1
    /\ \E h \in HeaderLines : out[h].index = 2 /\ \E j \in DataRows : h < j

====
